---- MODULE Spec2Model ----
(***************************************************************************)
(* Model of app.py, the Grist-backed pathogen map dashboard:               *)
(*   get_grist_data  - one HTTP GET, JSON body -> table of Records         *)
(*   df, app.layout  - the startup fetch and the dropdown options          *)
(*   update_map      - the Dash callback: re-fetch, filter, render         *)
(* Three specifications:                                                   *)
(*   SpecFetch - get_grist_data applied to a bounded set of payloads       *)
(*   Spec      - one browser session, callbacks dispatched one at a time   *)
(*   SpecConc  - two callback invocations running on two server threads,   *)
(*               interleaved between the fetch and the filter/render step  *)
(***************************************************************************)
EXTENDS Integers, Sequences, FiniteSets, TLC

(***************************************************************************)
(* Bounds of the model.                                                    *)
(***************************************************************************)
MaxFetchRecords == 2    \* SpecFetch: longest `records` list
MaxRecords == 2         \* Spec: longest `records` list of a response
MaxTicks == 2           \* Spec: refresh-timer ticks (n_intervals)
MaxConcRecords == 1     \* SpecConc: longest `records` list of a response

VARIABLES
    fetch_in, fetch_out,      \* SpecFetch: payload and get_grist_data's result
    app,                      \* "serving", or "import_failed" (module import raised)
    df,                       \* module-level table of the startup fetch (app.py:32)
    options,                  \* values offered by the dropdown (app.py:51)
    value, map_type, n_intervals,   \* the three callback inputs (app.py:85-87)
    pc,                       \* "idle", or "dispatched": a callback is due
    trigger,                  \* the input that fired the callback
    response,                 \* what the remote end answered this invocation
    gets,                     \* outbound GETs issued by this invocation
    df_live, df_filtered,     \* the locals of update_map
    result,                   \* what update_map returned or raised
    faulted_before,           \* history: an earlier invocation of the session raised
    w_pc, w_args, w_resp,     \* SpecConc: per server thread, the invocation
    w_df_live, w_df_filtered, w_result

(***************************************************************************)
(* JSON / Python values.  None is JSON null; a key that is missing from    *)
(* an object is modelled by its absence from the DOMAIN of the object.     *)
(***************************************************************************)
Null == [t |-> "null"]
Num(n) == [t |-> "num", v |-> n]
Str(s) == [t |-> "str", v |-> s]
List(S) == [t |-> "list", v |-> S]

\* Python truth value of a JSON scalar or of a list (app.py:27, app.py:92).
Truthy(x) ==
    CASE x.t = "null" -> FALSE
      [] x.t = "num"  -> x.v # 0
      [] x.t = "str"  -> x.v # ""
      [] x.t = "list" -> x.v # {}

\* dict.get(key): the value, or None when the key is missing (app.py:20-24).
Get(obj, key) == IF key \in DOMAIN obj THEN obj[key] ELSE Null

Columns == {"pathogen", "lat", "lon", "severity", "date"}

\* The five-field row built from one entry's `fields` (app.py:19-25).
Row(fields) ==
    [pathogen |-> Get(fields, "pathogen"),
     lat      |-> Get(fields, "lat"),
     lon      |-> Get(fields, "lon"),
     severity |-> Get(fields, "severity"),
     date     |-> Get(fields, "date")]

\* Variant: tests the coordinates against None instead of for truth.
KeepEntryNotNone(fields) ==
    Get(fields, "lat") # Null /\ Get(fields, "lon") # Null

\* The condition of the comprehension (app.py:27).
KeepEntry(fields) == Truthy(Get(fields, "lat")) /\ Truthy(Get(fields, "lon"))

\* r["fields"] raises KeyError when the entry has no `fields` (app.py:20-27).
HasFields(r) == "fields" \in DOMAIN r

\* Variant: r.get("fields", {}) - an entry without `fields` is skipped.
RECURSIVE BuildRecordsSkipBad(_)
BuildRecordsSkipBad(recs) ==
    IF recs = <<>> THEN [exc |-> "none", rows |-> <<>>]
    ELSE LET rest == BuildRecordsSkipBad(Tail(recs))
         IN IF HasFields(Head(recs)) /\ KeepEntry(Head(recs).fields)
            THEN [exc |-> "none",
                  rows |-> <<Row(Head(recs).fields)>> \o rest.rows]
            ELSE rest

\* The list comprehension of app.py:18-28: rows in payload order, or the
\* KeyError raised by the first entry without `fields`.
RECURSIVE BuildRecords(_)
BuildRecords(recs) ==
    IF recs = <<>> THEN [exc |-> "none", rows |-> <<>>]
    ELSE IF ~HasFields(Head(recs)) THEN [exc |-> "KeyError", rows |-> <<>>]
    ELSE LET rest == BuildRecords(Tail(recs))
             f == Head(recs).fields
         IN IF rest.exc # "none" THEN rest
            ELSE IF KeepEntry(f)
                 THEN [exc |-> "none", rows |-> <<Row(f)>> \o rest.rows]
                 ELSE rest

\* pd.DataFrame(records): a list of dicts gives the dicts' keys as columns,
\* the empty list gives a frame with no rows and NO columns (app.py:29).
DataFrame(rows) ==
    [columns |-> IF rows = <<>> THEN {} ELSE Columns, rows |-> rows]

\* data.get("records", []) (app.py:26).
RecordsOf(data) == IF "records" \in DOMAIN data THEN data.records ELSE <<>>

\* Variant: data["records"] - a body without `records` raises KeyError.
GetGristDataStrict(resp) ==
    IF resp.transport # "ok" THEN [exc |-> "ConnectionError"]
    ELSE IF resp.body # "json" THEN [exc |-> "JSONDecodeError"]
    ELSE IF "records" \notin DOMAIN resp.data THEN [exc |-> "KeyError"]
    ELSE LET built == BuildRecords(resp.data.records)
         IN IF built.exc # "none" THEN [exc |-> built.exc]
            ELSE [exc |-> "none", df |-> DataFrame(built.rows)]

\* get_grist_data (app.py:12-29) applied to what the remote end answers.
GetGristData(resp) ==
    IF resp.transport # "ok" THEN [exc |-> "ConnectionError"]
    ELSE IF resp.body # "json" THEN [exc |-> "JSONDecodeError"]
    ELSE LET built == BuildRecords(RecordsOf(resp.data))
         IN IF built.exc # "none" THEN [exc |-> built.exc]
            ELSE [exc |-> "none", df |-> DataFrame(built.rows)]

(***************************************************************************)
(* update_map (app.py:89-134).                                             *)
(***************************************************************************)
Unset == [unset |-> TRUE]

\* The values of one column, in row order.
Col(rows, c) == [i \in 1..Len(rows) |-> rows[i][c]]

RECURSIVE SelectRows(_, _)
SelectRows(rows, S) ==
    IF rows = <<>> THEN <<>>
    ELSE IF Head(rows).pathogen \in S
         THEN <<Head(rows)>> \o SelectRows(Tail(rows), S)
         ELSE SelectRows(Tail(rows), S)

\* df_live[df_live['pathogen'].isin(selected_pathogens)] (app.py:93);
\* df_live['pathogen'] raises KeyError on a frame without that column.
IsinFilter(table, selected) ==
    IF "pathogen" \notin table.columns THEN [exc |-> "KeyError"]
    ELSE [exc |-> "none",
          df  |-> [columns |-> table.columns,
                   rows    |-> SelectRows(table.rows, selected.v)]]

\* The filter of app.py:92-95.
FilterStep(live, selected) ==
    IF Truthy(selected) THEN IsinFilter(live, selected)
    ELSE [exc |-> "none", df |-> live]

NoDataTitle == "No data available for the selected filters"
NoDataText == "No data available."

\* f"Showing {len(df_filtered)} records from Grist." (app.py:133)
InfoText(n) == "Showing " \o ToString(n) \o " records from Grist."

\* px.scatter_mapbox(lat=[], lon=[]) with the title (app.py:98-102).
EmptyFigure ==
    [trace |-> "scattermapbox", lat |-> <<>>, lon |-> <<>>,
     mapbox_style |-> "open-street-map", title |-> NoDataTitle]

\* app.py:107-117 and 130-131.
ScatterFigure(rows) ==
    [trace |-> "scattermapbox",
     lat |-> Col(rows, "lat"), lon |-> Col(rows, "lon"),
     color |-> Col(rows, "severity"), size |-> Col(rows, "severity"),
     hover_name |-> Col(rows, "pathogen"), hover_date |-> Col(rows, "date"),
     zoom |-> 5, height |-> 700,
     mapbox_style |-> "open-street-map", margin |-> 0]

\* app.py:119-128 and 130-131.
DensityFigure(rows) ==
    [trace |-> "densitymapbox",
     lat |-> Col(rows, "lat"), lon |-> Col(rows, "lon"),
     z |-> Col(rows, "severity"), radius |-> 25,
     hover_pathogen |-> Col(rows, "pathogen"), hover_date |-> Col(rows, "date"),
     zoom |-> 5, height |-> 700,
     mapbox_style |-> "open-street-map", margin |-> 0]

\* app.py:97-134: the returned (figure, children) pair.
RenderStep(filtered, mode) ==
    IF filtered.rows = <<>>
    THEN [exc |-> "none", figure |-> EmptyFigure, children |-> NoDataText]
    ELSE [exc |-> "none",
          figure |-> IF mode = "scatter"
                     THEN ScatterFigure(filtered.rows)
                     ELSE DensityFigure(filtered.rows),
          children |-> InfoText(Len(filtered.rows))]

\* app.py:92-134, from the fetched table on: the locals and the result.
FilterAndRender(live, selected, mode) ==
    LET f == FilterStep(live, selected)
    IN IF f.exc # "none"
       THEN [df_filtered |-> Unset, result |-> [exc |-> f.exc]]
       ELSE [df_filtered |-> f.df,
             result |-> RenderStep(f.df, mode)]

\* Variant: filters and renders the module-level table of the startup fetch
\* instead of fetching.
UpdateMapCached(selected, mode, resp) ==
    LET r == FilterAndRender(df, selected, mode)
    IN [gets |-> 0, df_live |-> df,
        df_filtered |-> r.df_filtered, result |-> r.result]

\* The whole callback (app.py:89-134) given what the remote end answers:
\* the number of outbound GETs, the locals, and the result.
UpdateMap(selected, mode, resp) ==
    LET g == GetGristData(resp)
    IN IF g.exc # "none"
       THEN [gets |-> 1, df_live |-> Unset, df_filtered |-> Unset,
             result |-> [exc |-> g.exc]]
       ELSE LET r == FilterAndRender(g.df, selected, mode)
            IN [gets |-> 1, df_live |-> g.df,
                df_filtered |-> r.df_filtered, result |-> r.result]

(***************************************************************************)
(* What the remote end can answer.                                         *)
(***************************************************************************)
NetFail == [transport |-> "error"]
BadJson == [transport |-> "ok", status |-> 200, body |-> "not-json"]
ErrorBody ==
    [transport |-> "ok", status |-> 404, body |-> "json",
     data |-> [error |-> Str("document not found")]]
Payload(recs) ==
    [transport |-> "ok", status |-> 200, body |-> "json",
     data |-> [records |-> recs]]

SeqsUpTo(S, n) == UNION {[1..k -> S] : k \in 0..n}

Entry(f) == [id |-> 1, fields |-> f]
NoFieldsEntry == [id |-> 1]

\* SpecFetch: every combination of a missing, null, zero, empty or usable
\* coordinate, with two settings of the other fields.
LatVals == {Null, Num(0), Str(""), Num(10)}
LonVals == {Null, Num(0), Num(20)}
OtherFields ==
    {[pathogen |-> Str("Flu"), severity |-> Num(3), date |-> Str("2024-01-01")],
     [severity |-> Null]}
WithKey(f, k, v) == [x \in DOMAIN f \cup {k} |-> IF x = k THEN v ELSE f[x]]
FetchFields ==
    UNION {{o, WithKey(o, "lat", la), WithKey(o, "lon", lo),
            WithKey(WithKey(o, "lat", la), "lon", lo)} :
           <<o, la, lo>> \in OtherFields \X LatVals \X LonVals}
FetchEntries == {NoFieldsEntry} \cup {Entry(f) : f \in FetchFields}
FetchPayloads == SeqsUpTo(FetchEntries, MaxFetchRecords)

\* Spec: a usable Flu row, a usable Covid row, a row at latitude 0, and an
\* entry without `fields`.
FluEntry ==
    Entry([pathogen |-> Str("Flu"), lat |-> Num(10), lon |-> Num(20),
           severity |-> Num(3), date |-> Str("2024-01-01")])
CovidEntry ==
    Entry([pathogen |-> Str("Covid"), lat |-> Num(11), lon |-> Num(21),
           severity |-> Num(5), date |-> Str("2024-01-02")])
EquatorEntry ==
    Entry([pathogen |-> Str("Flu"), lat |-> Num(0), lon |-> Num(20),
           severity |-> Num(1), date |-> Str("2024-01-03")])
AppEntries == {FluEntry, CovidEntry, EquatorEntry, NoFieldsEntry}
Responses ==
    {NetFail, BadJson, ErrorBody}
        \cup {Payload(s) : s \in SeqsUpTo(AppEntries, MaxRecords)}

\* SpecConc: the same without the latitude-0 row and the non-JSON body.
ConcEntries == {FluEntry, CovidEntry, NoFieldsEntry}
ConcResponses ==
    {NetFail, ErrorBody}
        \cup {Payload(s) : s \in SeqsUpTo(ConcEntries, MaxConcRecords)}

MapTypes == {"scatter", "heatmap"}
Workers == {1, 2}

moduleVars == <<app, df, options>>
inputVars == <<value, map_type, n_intervals>>
frameVars == <<response, gets, df_live, df_filtered, result>>
sessionVars == <<inputVars, pc, trigger, frameVars, faulted_before>>
concVars == <<w_pc, w_args, w_resp, w_df_live, w_df_filtered, w_result>>
fetchVars == <<fetch_in, fetch_out>>
vars == <<fetchVars, moduleVars, sessionVars, concVars>>

(***************************************************************************)
(* Module import: df = get_grist_data() (app.py:32) and the layout         *)
(* (app.py:44-77).  An exception at import time leaves no running app.     *)
(***************************************************************************)
\* sorted(df["pathogen"].dropna().unique()) (app.py:51), as a set.
DropdownOptions(table) ==
    {table.rows[i].pathogen : i \in 1..Len(table.rows)} \ {Null}

Startup(resp) ==
    LET g == GetGristData(resp)
    IN IF g.exc # "none"
       THEN [app |-> "import_failed", df |-> Unset, options |-> {}]
       ELSE IF "pathogen" \notin g.df.columns
       THEN [app |-> "import_failed", df |-> g.df, options |-> {}]
       ELSE [app |-> "serving", df |-> g.df,
             options |-> DropdownOptions(g.df)]

InitModule(R) ==
    \E resp \in R :
        LET s == Startup(resp)
        IN app = s.app /\ df = s.df /\ options = s.options

FetchIdle == fetch_in = <<>> /\ fetch_out = Unset

FrameUnset ==
    /\ response = Unset /\ gets = 0
    /\ df_live = Unset /\ df_filtered = Unset /\ result = Unset

\* Initial widget values (app.py:52, 66, 76); once the app serves, the page
\* load fires the callback once.
SessionInit ==
    /\ value = Null /\ map_type = "scatter" /\ n_intervals = 0
    /\ pc = IF app = "serving" THEN "dispatched" ELSE "idle"
    /\ trigger = "load"
    /\ FrameUnset
    /\ faulted_before = FALSE

ConcIdle ==
    /\ w_pc = [w \in Workers |-> "idle"]
    /\ w_args = [w \in Workers |-> Unset]
    /\ w_resp = [w \in Workers |-> Unset]
    /\ w_df_live = [w \in Workers |-> Unset]
    /\ w_df_filtered = [w \in Workers |-> Unset]
    /\ w_result = [w \in Workers |-> Unset]

(***************************************************************************)
(* SpecFetch: get_grist_data on every payload of FetchPayloads.            *)
(***************************************************************************)
InitFetch ==
    /\ fetch_in \in FetchPayloads /\ fetch_out = Unset
    /\ app = "import_failed" /\ df = Unset /\ options = {}
    /\ SessionInit /\ ConcIdle

CallGetGristData ==
    /\ fetch_out = Unset
    /\ fetch_out' = GetGristData(Payload(fetch_in))
    /\ UNCHANGED <<fetch_in, moduleVars, sessionVars, concVars>>

SpecFetch == InitFetch /\ [][CallGetGristData]_vars

(***************************************************************************)
(* Spec: one browser session; the three inputs of the callback             *)
(* (app.py:85-87) fire it, one invocation at a time.                       *)
(***************************************************************************)
Init == FetchIdle /\ InitModule(Responses) /\ SessionInit /\ ConcIdle

Dispatch(t) ==
    /\ pc' = "dispatched" /\ trigger' = t
    /\ response' = Unset /\ gets' = 0
    /\ df_live' = Unset /\ df_filtered' = Unset /\ result' = Unset
    /\ faulted_before' = (faulted_before \/ (result # Unset /\ result.exc # "none"))

\* The user changes the dropdown: any subset of the offered options.
SelectionChange ==
    /\ app = "serving" /\ pc = "idle"
    /\ \E S \in SUBSET options :
          /\ List(S) # value
          /\ value' = List(S)
    /\ Dispatch("pathogen-dropdown")
    /\ UNCHANGED <<map_type, n_intervals, fetchVars, moduleVars, concVars>>

ModeChange ==
    /\ app = "serving" /\ pc = "idle"
    /\ \E m \in MapTypes : m # map_type /\ map_type' = m
    /\ Dispatch("map-type")
    /\ UNCHANGED <<value, n_intervals, fetchVars, moduleVars, concVars>>

TimerTick ==
    /\ app = "serving" /\ pc = "idle"
    /\ n_intervals < MaxTicks
    /\ n_intervals' = n_intervals + 1
    /\ Dispatch("refresh-timer")
    /\ UNCHANGED <<value, map_type, fetchVars, moduleVars, concVars>>

\* The module-level table after an invocation: update_map assigns only its
\* own locals (app.py:90-95).
TableAfter(old, fetched) == old

\* One invocation of update_map, start to end.
RunCallback ==
    /\ app = "serving" /\ pc = "dispatched"
    /\ \E resp \in Responses :
          LET u == UpdateMap(value, map_type, resp)
          IN /\ response' = resp
             /\ gets' = u.gets
             /\ df_live' = u.df_live
             /\ df_filtered' = u.df_filtered
             /\ result' = u.result
             /\ df' = TableAfter(df, u.df_live)
    /\ pc' = "idle"
    /\ UNCHANGED <<app, options, inputVars, trigger, faulted_before,
                   fetchVars, concVars>>

Next == SelectionChange \/ ModeChange \/ TimerTick \/ RunCallback

Spec == Init /\ [][Next]_vars

(***************************************************************************)
(* SpecConc: two invocations of update_map on two server threads.  The     *)
(* framework hands each thread the input values of its request; a thread   *)
(* can be pre-empted between the fetch (app.py:90) and the rest            *)
(* (app.py:92-134).                                                        *)
(***************************************************************************)
InitConc ==
    /\ FetchIdle
    /\ InitModule(ConcResponses) /\ app = "serving"
    /\ value = Null /\ map_type = "scatter" /\ n_intervals = 0
    /\ pc = "idle" /\ trigger = "load" /\ FrameUnset
    /\ faulted_before = FALSE
    /\ ConcIdle

\* Variant: df_live is declared global - one cell for all invocations.
FrameShared(w) == 1

\* Where an invocation keeps df_live: a local of its own call frame
\* (app.py:90).
FrameOf(w) == w

ConcDispatch(w) ==
    /\ w_pc[w] = "idle"
    /\ \E S \in {Null} \cup {List(X) : X \in SUBSET options}, m \in MapTypes :
          w_args' = [w_args EXCEPT ![w] = [selected |-> S, map_type |-> m]]
    /\ w_pc' = [w_pc EXCEPT ![w] = "running"]
    /\ UNCHANGED <<w_resp, w_df_live, w_df_filtered, w_result,
                   fetchVars, moduleVars, sessionVars>>

\* df_live = get_grist_data() (app.py:90).
ConcFetch(w) ==
    /\ w_pc[w] = "running"
    /\ \E resp \in ConcResponses :
          LET g == GetGristData(resp)
          IN /\ w_resp' = [w_resp EXCEPT ![w] = resp]
             /\ IF g.exc # "none"
                THEN /\ w_pc' = [w_pc EXCEPT ![w] = "done"]
                     /\ w_result' = [w_result EXCEPT ![w] = [exc |-> g.exc]]
                     /\ UNCHANGED w_df_live
                ELSE /\ w_pc' = [w_pc EXCEPT ![w] = "fetched"]
                     /\ w_df_live' = [w_df_live EXCEPT ![FrameOf(w)] = g.df]
                     /\ UNCHANGED w_result
    /\ UNCHANGED <<w_args, w_df_filtered, fetchVars, moduleVars, sessionVars>>

\* Filter and render (app.py:92-134).
ConcRender(w) ==
    /\ w_pc[w] = "fetched"
    /\ LET live == w_df_live[FrameOf(w)]
           r == IF live = Unset   \* a local read before its assignment
                THEN [df_filtered |-> Unset,
                      result |-> [exc |-> "UnboundLocalError"]]
                ELSE FilterAndRender(live, w_args[w].selected,
                                     w_args[w].map_type)
       IN /\ w_df_filtered' = [w_df_filtered EXCEPT ![w] = r.df_filtered]
          /\ w_result' = [w_result EXCEPT ![w] = r.result]
    /\ w_pc' = [w_pc EXCEPT ![w] = "done"]
    /\ UNCHANGED <<w_args, w_resp, w_df_live, fetchVars, moduleVars, sessionVars>>

\* The result goes back to the browser; the call frame is gone.
ConcReturn(w) ==
    /\ w_pc[w] = "done"
    /\ w_pc' = [w_pc EXCEPT ![w] = "idle"]
    /\ w_args' = [w_args EXCEPT ![w] = Unset]
    /\ w_resp' = [w_resp EXCEPT ![w] = Unset]
    /\ w_df_live' = [w_df_live EXCEPT ![FrameOf(w)] = Unset]
    /\ w_df_filtered' = [w_df_filtered EXCEPT ![w] = Unset]
    /\ w_result' = [w_result EXCEPT ![w] = Unset]
    /\ UNCHANGED <<fetchVars, moduleVars, sessionVars>>

NextConc ==
    \E w \in Workers :
        ConcDispatch(w) \/ ConcFetch(w) \/ ConcRender(w) \/ ConcReturn(w)

SpecConc == InitConc /\ [][NextConc]_vars

(***************************************************************************)
(* Vocabulary of the properties.                                           *)
(***************************************************************************)
\* `out` is `in` restricted to the positions K, in the order of `in`.
IsSelection(out, in, K) ==
    /\ Len(out) = Cardinality(K)
    /\ \A i \in K : out[Cardinality({j \in K : j <= i})] = in[i]

\* A coordinate that is present and truthy: not missing, not null, not 0,
\* not the empty string.
PresentAndTruthy(f, k) == k \in DOMAIN f /\ f[k] \notin {Null, Num(0), Str("")}

HasCoordinates(r) ==
    PresentAndTruthy(r.fields, "lat") /\ PresentAndTruthy(r.fields, "lon")

\* The five fields of an entry, None for a missing one.
Projected(r) ==
    [c \in Columns |-> IF c \in DOMAIN r.fields THEN r.fields[c] ELSE Null]

Completed == app = "serving" /\ pc = "idle" /\ result # Unset

\* The dropdown value as a set: None and [] select nothing.
SelectedSet(v) == IF v.t = "list" THEN v.v ELSE {}

\* The response is a JSON object with a `records` list, each entry with
\* `fields`.
WellFormed(resp) ==
    /\ resp.transport = "ok" /\ resp.body = "json"
    /\ "records" \in DOMAIN resp.data
    /\ \A i \in 1..Len(resp.data.records) : HasFields(resp.data.records[i])

\* Positions of the response's entries that pass the coordinate filter and
\* the pathogen filter of selection v.
PassBoth(resp, v) ==
    {i \in 1..Len(resp.data.records) :
        /\ HasCoordinates(resp.data.records[i])
        /\ SelectedSet(v) # {} =>
              Projected(resp.data.records[i]).pathogen \in SelectedSet(v)}

IsPlaceholder(res) ==
    /\ res.exc = "none"
    /\ res.figure.lat = <<>> /\ res.figure.lon = <<>>
    /\ res.figure.title = NoDataTitle
    /\ res.children = NoDataText

\* A JSON object without a `records` key.
NoRecordsKey(resp) ==
    resp.transport = "ok" /\ resp.body = "json" /\ "records" \notin DOMAIN resp.data

\* The fetch step cannot succeed on this response.
FetchFails(resp) ==
    \/ resp.transport # "ok"
    \/ resp.body # "json"
    \/ /\ "records" \in DOMAIN resp.data
       /\ \E i \in 1..Len(resp.data.records) : ~HasFields(resp.data.records[i])

\* Positions of the fetched rows that the selection v keeps.
KeptBySelection(rows, v) ==
    {i \in 1..Len(rows) : SelectedSet(v) # {} => rows[i].pathogen \in SelectedSet(v)}

\* The options are the distinct non-null pathogens of the startup table and
\* the selection is made of options.
OptionsFromStartup ==
    app = "serving" =>
      /\ options = {p \in {df.rows[i].pathogen : i \in 1..Len(df.rows)} : p # Null}
      /\ SelectedSet(value) \subseteq options

(***************************************************************************)
(* C1. get_grist_data keeps an entry iff its lat and its lon are both      *)
(* present and truthy, whatever the other fields hold; the kept rows are   *)
(* in payload order, one row per kept entry.  (SpecFetch)                  *)
(***************************************************************************)
C1_CoordinateFilter ==
    (/\ fetch_out # Unset
     /\ \A i \in 1..Len(fetch_in) : HasFields(fetch_in[i]))
    => /\ fetch_out.exc = "none"
       /\ IsSelection(fetch_out.df.rows,
                      [i \in 1..Len(fetch_in) |-> Projected(fetch_in[i])],
                      {i \in 1..Len(fetch_in) : HasCoordinates(fetch_in[i])})

\* An entry at latitude 0 is dropped and the usable entry after it is kept.
C1_Witness ==
    /\ fetch_out # Unset /\ Len(fetch_in) = 2
    /\ HasFields(fetch_in[1]) /\ HasFields(fetch_in[2])
    /\ "lat" \in DOMAIN fetch_in[1].fields /\ fetch_in[1].fields.lat = Num(0)
    /\ "lon" \in DOMAIN fetch_in[1].fields /\ fetch_in[1].fields.lon = Num(20)
    /\ HasCoordinates(fetch_in[2])
    /\ fetch_out.exc = "none" /\ Len(fetch_out.df.rows) = 1

(***************************************************************************)
(* C2. For every fetched Record set and every selection S: with S empty or *)
(* unset the filtered set is the fetched set; with S non-empty it is       *)
(* exactly the fetched records whose pathogen is in S.  (Spec)             *)
(***************************************************************************)
C2_PathogenFilter ==
    (Completed /\ df_live # Unset)
    => /\ df_filtered # Unset
       /\ IF SelectedSet(value) = {}
          THEN df_filtered.rows = df_live.rows
          ELSE IsSelection(df_filtered.rows, df_live.rows,
                           {i \in 1..Len(df_live.rows) :
                               df_live.rows[i].pathogen \in SelectedSet(value)})

\* The same, for a fetch that retained at least one record.
C2_WhenRowsFetched ==
    (Completed /\ df_live # Unset /\ df_live.rows # <<>>) => C2_PathogenFilter

(***************************************************************************)
(* C3. Whenever the fetched records left by the pathogen filter are none   *)
(* (the fetch itself may hold zero records), update_map returns the        *)
(* placeholder figure and "No data available."; it never raises.  (Spec)   *)
(***************************************************************************)
C3_EmptyResult ==
    (Completed /\ WellFormed(response) /\ PassBoth(response, value) = {})
    => IsPlaceholder(result)

\* The same, for a fetch that retained at least one record.
C3_WhenRowsFetched ==
    (Completed /\ df_live # Unset /\ df_live.rows # <<>>) => C3_EmptyResult

(***************************************************************************)
(* C4. When the filtered set is non-empty the summary text is "Showing     *)
(* {count} records from Grist." with count the number of rows left by the  *)
(* coordinate filter and the pathogen filter (count >= 1), in either view  *)
(* mode; "No data available." is returned iff the filtered set is empty.   *)
(* (Spec)                                                                  *)
(***************************************************************************)
C4_SummaryText ==
    (Completed /\ df_live # Unset) =>
      LET n == Cardinality(KeptBySelection(df_live.rows, value))
      IN /\ n >= 1 =>
              /\ result.exc = "none"
              /\ result.children =
                   "Showing " \o ToString(n) \o " records from Grist."
              /\ n = 2 => result.children = "Showing 2 records from Grist."
              /\ WellFormed(response) =>
                   n = Cardinality(PassBoth(response, value))
         /\ (result.exc = "none" /\ result.children = NoDataText) <=> n = 0

\* The same, for the invocations that got past the filter of app.py:92-95
\* (df_filtered is assigned).
C4_WhenFiltered ==
    (Completed /\ df_filtered # Unset) => C4_SummaryText

\* Two rows are counted in heatmap mode.
C4_Witness ==
    /\ Completed /\ map_type = "heatmap"
    /\ df_filtered # Unset /\ Len(df_filtered.rows) = 2
    /\ result.children = "Showing 2 records from Grist."

(***************************************************************************)
(* C5. Every trigger's invocation issues exactly one GET and computes its  *)
(* output from that response alone, never from an earlier fetch or the     *)
(* module-level table of the startup fetch, which it leaves alone.  (Spec) *)
(***************************************************************************)
C5_FreshFetch ==
    /\ [](Completed =>
            /\ gets = 1
            /\ response # Unset
            /\ WellFormed(response) =>
                 /\ df_live # Unset
                 /\ IsSelection(df_live.rows,
                       [i \in 1..Len(response.data.records) |->
                            Projected(response.data.records[i])],
                       {i \in 1..Len(response.data.records) :
                            HasCoordinates(response.data.records[i])})
            /\ (WellFormed(response) /\ result.exc = "none") =>
                 /\ Len(result.figure.lat) =
                        Cardinality(PassBoth(response, value))
                 /\ \A k \in 1..Len(result.figure.lat) :
                        result.figure.lat[k] = df_filtered.rows[k].lat)
    /\ [][(pc = "dispatched" /\ pc' = "idle") => (gets' = 1 /\ df' = df)]_vars

\* A mode change re-fetches: the output shows the one Covid row of this
\* response while the startup table holds one Flu row.
C5_Witness ==
    /\ Completed /\ trigger = "map-type" /\ gets = 1
    /\ Len(df.rows) = 1 /\ df.rows[1].pathogen = Str("Flu")
    /\ result.exc = "none"
    /\ result.figure.lat = <<Num(11)>>

(***************************************************************************)
(* C6. As stated: a JSON body without a `records` key (the error body of a *)
(* non-2xx response) makes get_grist_data raise, update_map returns        *)
(* nothing, and the response is never rendered as "No data available."     *)
(* (Spec)                                                                  *)
(***************************************************************************)
C6_MissingRecordsRaises ==
    (Completed /\ NoRecordsKey(response))
    => (result.exc # "none" /\ df_live = Unset)

\* C6 as amended: such a body is read as an empty `records` list -
\* get_grist_data does not raise and returns the empty Record set (after
\* its one GET), and with an empty or unset selection update_map returns
\* the placeholder figure and "No data available."
C6_MissingRecordsIsEmpty ==
    (Completed /\ NoRecordsKey(response))
    => /\ gets = 1
       /\ df_live # Unset /\ df_live.rows = <<>>
       /\ SelectedSet(value) = {} => IsPlaceholder(result)

\* A 404 error body rendered as "No data available."
C6_Witness ==
    /\ Completed /\ NoRecordsKey(response) /\ response.status = 404
    /\ result.exc = "none" /\ result.children = NoDataText

(***************************************************************************)
(* C7. A failed network call, a body that is not JSON, or a single entry   *)
(* without `fields` makes the invocation raise: no (figure, text) pair, no *)
(* partial Record set; a later trigger fetches afresh and is unaffected.   *)
(* (Spec)                                                                  *)
(***************************************************************************)
C7_FetchFaultPropagates ==
    Completed =>
      /\ FetchFails(response) =>
            /\ result.exc # "none"
            /\ DOMAIN result = {"exc"}
            /\ df_live = Unset /\ df_filtered = Unset
      /\ (faulted_before /\ WellFormed(response)) =>
            /\ gets = 1
            /\ df_live # Unset
            /\ Len(df_live.rows) =
                 Cardinality({i \in 1..Len(response.data.records) :
                                 HasCoordinates(response.data.records[i])})
            /\ PassBoth(response, value) # {} =>
                 /\ result.exc = "none"
                 /\ Len(result.figure.lat) =
                        Cardinality(PassBoth(response, value))

\* After an invocation that raised, a response whose second entry lacks
\* `fields` raises again although its first entry is usable.
C7_Witness ==
    /\ Completed /\ faulted_before
    /\ response.transport = "ok" /\ response.body = "json"
    /\ "records" \in DOMAIN response.data
    /\ Len(response.data.records) = 2
    /\ HasFields(response.data.records[1])
    /\ HasCoordinates(response.data.records[1])
    /\ ~HasFields(response.data.records[2])
    /\ result = [exc |-> "KeyError"]

\* After an invocation that raised, a well-formed response is rendered.
C7_RecoveryWitness ==
    /\ Completed /\ faulted_before /\ WellFormed(response)
    /\ result.exc = "none" /\ Len(result.figure.lat) = 2

(***************************************************************************)
(* C8. Two invocations that differ only in view mode return the same       *)
(* summary text and are built from the same filtered rows (same count,     *)
(* same lat/lon/severity data); only the rendering form differs, and with  *)
(* an empty filtered set both return the same placeholder.  (SpecConc)     *)
(***************************************************************************)
C8_ModeIndependent ==
    \A a, b \in Workers :
      (/\ w_pc[a] = "done" /\ w_pc[b] = "done"
       /\ w_resp[a] = w_resp[b]
       /\ w_args[a].selected = w_args[b].selected
       /\ w_args[a].map_type = "scatter" /\ w_args[b].map_type = "heatmap")
      => /\ w_result[a].exc = w_result[b].exc
         /\ w_df_filtered[a] = w_df_filtered[b]
         /\ w_result[a].exc = "none" =>
              /\ w_result[a].children = w_result[b].children
              /\ w_result[a].figure.lat = w_result[b].figure.lat
              /\ w_result[a].figure.lon = w_result[b].figure.lon
              /\ Len(w_result[a].figure.lat) = Len(w_df_filtered[a].rows)
              /\ w_df_filtered[a].rows # <<>> =>
                   /\ w_result[a].figure.trace = "scattermapbox"
                   /\ w_result[b].figure.trace = "densitymapbox"
                   /\ w_result[a].figure.color = w_result[b].figure.z
                   /\ w_result[a].figure.size = w_result[b].figure.z
         /\ (/\ w_df_live[a] # Unset
             /\ KeptBySelection(w_df_live[a].rows, w_args[a].selected) = {}) =>
              /\ IsPlaceholder(w_result[a])
              /\ w_result[a] = w_result[b]

\* The same, for the pairs of invocations that returned.
C8_WhenReturned ==
    \A a, b \in Workers :
      (/\ w_pc[a] = "done" /\ w_pc[b] = "done"
       /\ w_resp[a] = w_resp[b]
       /\ w_args[a].selected = w_args[b].selected
       /\ w_args[a].map_type = "scatter" /\ w_args[b].map_type = "heatmap"
       /\ w_result[a].exc = "none")
      => /\ w_result[b].exc = "none"
         /\ w_df_filtered[a] = w_df_filtered[b]
         /\ w_result[a].children = w_result[b].children
         /\ w_result[a].figure.lat = w_result[b].figure.lat
         /\ w_result[a].figure.lon = w_result[b].figure.lon
         /\ IF w_df_filtered[a].rows = <<>>
            THEN IsPlaceholder(w_result[a]) /\ w_result[a] = w_result[b]
            ELSE /\ w_result[a].figure.trace = "scattermapbox"
                 /\ w_result[b].figure.trace = "densitymapbox"
                 /\ w_result[a].figure.color = w_result[b].figure.z

\* The same one-row response rendered as markers and as a density surface.
C8_Witness ==
    /\ w_pc[1] = "done" /\ w_pc[2] = "done"
    /\ w_resp[1] = w_resp[2]
    /\ w_args[1].selected = w_args[2].selected
    /\ w_args[1].map_type = "scatter" /\ w_args[2].map_type = "heatmap"
    /\ w_result[1].exc = "none" /\ w_result[2].exc = "none"
    /\ Len(w_result[1].figure.lat) = 1
    /\ w_result[2].figure.trace = "densitymapbox"

(***************************************************************************)
(* C9. The outcome of an invocation is a function of its response, its     *)
(* selection and its view mode alone: after any sequence or interleaving   *)
(* of invocations, raised ones included, two invocations with the same     *)
(* three inputs have the same locals and the same result; no invocation    *)
(* writes the module-level state.  (SpecConc)                              *)
(***************************************************************************)
C9_Deterministic ==
    /\ [](\A a, b \in Workers :
            (/\ w_pc[a] = "done" /\ w_pc[b] = "done"
             /\ w_resp[a] = w_resp[b] /\ w_args[a] = w_args[b])
            => /\ w_result[a] = w_result[b]
               /\ w_df_filtered[a] = w_df_filtered[b]
               /\ w_df_live[a] = w_df_live[b])
    /\ [][df' = df /\ options' = options /\ app' = app]_vars

\* Two threads finished the same request on the same response.
C9_Witness ==
    /\ w_pc[1] = "done" /\ w_pc[2] = "done"
    /\ w_resp[1] = w_resp[2] /\ w_args[1] = w_args[2]
    /\ w_args[1].selected # Null /\ SelectedSet(w_args[1].selected) # {}
    /\ w_result[1].exc = "none" /\ w_result[1] = w_result[2]
    /\ Len(w_result[1].figure.lat) = 1

(***************************************************************************)
(* C10. The dropdown options are the distinct non-null pathogens of the    *)
(* startup table; no trigger changes the options or that table, so only    *)
(* startup pathogens are ever selected; a selected pathogen that is absent *)
(* from the current fetch yields the empty-result output.  (Spec)          *)
(***************************************************************************)
C10_OptionsFrozen ==
    /\ []OptionsFromStartup
    /\ [][options' = options /\ df' = df]_vars
    /\ [](/\ Completed /\ WellFormed(response)
          /\ SelectedSet(value) # {}
          /\ PassBoth(response, value) = {}
          => IsPlaceholder(result))

\* The part of C10 about the options and the startup table alone.
C10_FrameOnly ==
    /\ []OptionsFromStartup
    /\ [][options' = options /\ df' = df]_vars
====
